---- MODULE Spec2Model ----
(***************************************************************************)
(* State-machine model of the DFNS-CGGMP21 blueprint: the three jobs       *)
(* keygen (src/src/keygen.rs), key_refresh (src/src/key_refresh.rs) and    *)
(* sign (src/src/signing.rs), the session store they share on one node     *)
(* (DfnsContext.store, src/src/context.rs) and the deterministic           *)
(* derivation of store keys and execution ids.                             *)
(*                                                                         *)
(* The CGGMP21 rounds are an external library: a protocol call is an await *)
(* point of the job whose outcome (Ok / Err) is chosen by the environment. *)
(***************************************************************************)
EXTENDS Integers, Sequences, FiniteSets, TLC

(***************************************************************************)
(* Bounds of the model.                                                    *)
(***************************************************************************)
\* number of operator nodes registered for the blueprint
NumNodes == 3
\* number of job calls the chain issues in one behaviour
MaxCalls == 3
\* largest committee size / blueprint id / call id fed to the pure derivation
MaxN == 3
MaxBlueprint == 1
MaxCallId == 3
\* number of nodes that may stop in one behaviour
MaxCrashed == 1
\* size below which the set of registered operators does not shrink
MinOperators == 2
\* number of job invocations in the behaviours that vary the job context
MaxInvocations == 2

(***************************************************************************)
(* State.                                                                  *)
(***************************************************************************)
VARIABLES
    calls,      \* the JobCalled events the chain has issued, in order
    jobs,       \* jobs[p][s]: node p's run of the job for call slot s
    store,      \* store[p]: node p's LocalDatabase<DfnsStore>, store key -> record
    net,        \* channels opened on the network multiplexer, one entry per open
    crashed,    \* nodes that stopped
    remote,     \* operators whose nodes are run elsewhere: the environment
    operators,  \* the accounts registered on chain as operators of the blueprint
    prefs,      \* the operators whose preferences (ECDSA key) the chain storage holds
    ids         \* inputs and outputs of the pure id derivation (SpecIds)

vars == <<calls, jobs, store, net, crashed, remote, operators, prefs, ids>>

(***************************************************************************)
(* Byte strings and SHA-256.                                               *)
(* A byte string is a sequence of tokens.  A token is either a concrete    *)
(* byte [d |-> <<>>, b |-> 0..255] or a whole 32-byte digest               *)
(* [d |-> input, b |-> -1], which stands for SHA-256 of the byte string    *)
(* `input`: SHA-256 is modelled as an injective function of its input.     *)
(***************************************************************************)
Byte(v) == [d |-> <<>>, b |-> v]

Bytes(s) == [k \in 1..Len(s) |-> Byte(s[k])]

\* "dfns"
META_SALT == Bytes(<<100, 102, 110, 115>>)
\* "dfns-keygen"
KEYGEN_SALT == Bytes(<<100, 102, 110, 115, 45, 107, 101, 121, 103, 101, 110>>)
\* b"dfns-key-refresh"
REFRESH_SALT == Bytes(<<100, 102, 110, 115, 45, 107, 101, 121, 45, 114, 101, 102, 114, 101, 115, 104>>)
\* "dfns-signing"
SIGNING_SALT == Bytes(<<100, 102, 110, 115, 45, 115, 105, 103, 110, 105, 110, 103>>)

RECURSIVE ShiftRight8(_, _)
ShiftRight8(v, k) == IF k = 0 THEN v ELSE ShiftRight8(v \div 256, k - 1)

\* uN::to_be_bytes for a w-byte unsigned integer
to_be_bytes(v, w) == [k \in 1..w |-> Byte(ShiftRight8(v, w - k) % 256)]

\* `n as u16`
as_u16(v) == v % 65536

\* compute_sha256_hash!(data...): the digest of the concatenated arguments
compute_sha256_hash(data) == [d |-> data, b |-> -1]

\* compute_deterministic_hashes: <<meta_hash, deterministic_hash>>
compute_deterministic_hashes(n, blueprint_id, call_id) ==
    LET meta_hash == compute_sha256_hash(to_be_bytes(n, 2) \o to_be_bytes(blueprint_id, 8)
                                          \o to_be_bytes(call_id, 8) \o META_SALT)
        deterministic_hash == compute_sha256_hash(<<meta_hash>> \o KEYGEN_SALT)
    IN  <<meta_hash, deterministic_hash>>

\* hex::encode of a digest: injective, one text per digest
hex_encode(h) == [hex |-> h]

\* store_key = hex::encode(meta_hash), as all three jobs compute it
StoreKey(n, blueprint_id, seed_call_id) ==
    hex_encode(compute_deterministic_hashes(as_u16(n), blueprint_id, seed_call_id)[1])

\* keygen: ExecutionId::new(&deterministic_hash)
KeygenEid(n, blueprint_id, call_id) ==
    compute_deterministic_hashes(as_u16(n), blueprint_id, call_id)[2]

\* key_refresh, first ceremony: Sha256::digest(deterministic_hash)
AuxEid(n, blueprint_id, keygen_call_id) ==
    compute_sha256_hash(<<compute_deterministic_hashes(as_u16(n), blueprint_id, keygen_call_id)[2]>>)

KeyRefreshEid_NoCallId(n, blueprint_id, keygen_call_id, call_id) ==
    compute_sha256_hash(<<AuxEid(n, blueprint_id, keygen_call_id)>> \o REFRESH_SALT)

\* key_refresh, second ceremony: the (shadowed) aux hash, chained with the
\* job's own call id and b"dfns-key-refresh"
KeyRefreshEid(n, blueprint_id, keygen_call_id, call_id) ==
    compute_sha256_hash(<<AuxEid(n, blueprint_id, keygen_call_id)>>
                        \o to_be_bytes(call_id, 8) \o REFRESH_SALT)

SignEid_WithLocalNonce(n, blueprint_id, keygen_call_id, call_id) ==
    compute_sha256_hash(<<compute_deterministic_hashes(as_u16(n), blueprint_id, keygen_call_id)[2]>>
                        \o to_be_bytes(call_id, 8) \o to_be_bytes(Cardinality(net), 8)
                        \o SIGNING_SALT)

\* sign: compute_sha256_hash!(deterministic_hash, call_id.to_be_bytes(), "dfns-signing")
SignEid(n, blueprint_id, keygen_call_id, call_id) ==
    compute_sha256_hash(<<compute_deterministic_hashes(as_u16(n), blueprint_id, keygen_call_id)[2]>>
                        \o to_be_bytes(call_id, 8) \o SIGNING_SALT)

Nodes == 0..(NumNodes - 1)
Slots == 1..MaxCalls

\* Option<T>
None == <<>>
Some(x) == <<x>>
IsSome(o) == o # <<>>
Unwrap(o) == o[1]

\* the blueprint id of the node's configuration (DfnsContext::blueprint_id)
BlueprintId == 7
\* the threshold the keygen calls carry (job parameter t)
Threshold == 2
\* the message the sign calls carry (job parameter message_to_sign)
Message == Bytes(<<1, 2, 3>>)

Range(f) == {f[k] : k \in DOMAIN f}

\* current_service_operators: the operators of the service as the chain client
\* lists them, in whatever order the query returns them
current_service_operators ==
    {q \in [1..Cardinality(operators) -> operators] :
        \A a, b \in DOMAIN q : a # b => q[a] # q[b]}

\* a BTreeMap<AccountId32, _> iterates in AccountId order: its keys in that order
RECURSIVE SortedSeq(_)
SortedSeq(S) ==
    IF S = {} THEN <<>>
    ELSE LET m == CHOOSE x \in S : \A y \in S : x <= y
         IN  <<m>> \o SortedSeq(S \ {m})

RECURSIVE insert_keys_SkipsMissing(_, _, _)
insert_keys_SkipsMissing(current_service_op, k, map) ==
    IF k > Len(current_service_op) THEN Some(map)
    ELSE IF current_service_op[k] \in prefs
    THEN insert_keys_SkipsMissing(current_service_op, k + 1, map \cup {current_service_op[k]})
    ELSE insert_keys_SkipsMissing(current_service_op, k + 1, map)

\* the loop of current_service_operators_ecdsa_keys from the k-th listed
\* operator on: its preferences are fetched and its key is inserted into the
\* map (here: the set of the map's keys); None ("Missing ECDSA key for
\* operator") at the first operator the storage has no preferences for
RECURSIVE insert_keys(_, _, _)
insert_keys(current_service_op, k, map) ==
    IF k > Len(current_service_op) THEN Some(map)
    ELSE IF current_service_op[k] \in prefs
    THEN insert_keys(current_service_op, k + 1, map \cup {current_service_op[k]})
    ELSE None

current_service_operators_ecdsa_keys_AsListed(current_service_op) ==
    Some(current_service_op)

\* current_service_operators_ecdsa_keys: the BTreeMap<AccountId32, Public> of
\* the listed operators, as its keys in iteration order, or None (an error)
current_service_operators_ecdsa_keys(current_service_op) ==
    LET map == insert_keys(current_service_op, 1, {})
    IN  IF map = None THEN None ELSE Some(SortedSeq(Unwrap(map)))

get_party_index_and_operators_OrFirst(my_id, current_service_op) ==
    LET keys == current_service_operators_ecdsa_keys(current_service_op)
    IN  IF keys = None THEN None
        ELSE LET parties == Unwrap(keys)
             IN  IF \E k \in 1..Len(parties) : parties[k] = my_id
                 THEN Some(<<(CHOOSE k \in 1..Len(parties) : parties[k] = my_id) - 1,
                             parties>>)
                 ELSE Some(<<0, parties>>)

\* get_party_index_and_operators: <<position of my_id in the map, the map>>;
\* None (an error) when the map could not be built, or ("Party not found in
\* operator list") when my_id is not a key of it
get_party_index_and_operators(my_id, current_service_op) ==
    LET keys == current_service_operators_ecdsa_keys(current_service_op)
    IN  IF keys = None THEN None
        ELSE LET parties == Unwrap(keys)
             IN  IF \E k \in 1..Len(parties) : parties[k] = my_id
                 THEN Some(<<(CHOOSE k \in 1..Len(parties) : parties[k] = my_id) - 1,
                             parties>>)
                 ELSE None

\* the size of the committee resolved from the operators now registered
CommitteeSize == Cardinality(operators)

\* the keys of `parties` as the jobs build it: 0..n-1
PartyIndexes(parties) == 0..(Len(parties) - 1)

(***************************************************************************)
(* Job calls, job runs, store records.                                     *)
(***************************************************************************)
JobKinds == {"keygen", "key_refresh", "sign"}

\* what a job reads from the context it is invoked with: the call id set for
\* the invocation and the blueprint id of the configuration
JobContext(call_id, blueprint_id) == [call_id |-> call_id, blueprint_id |-> blueprint_id]

\* a JobCalled event: the job, the call id the chain gave it, and its arguments
MkCall(job, call_id, keygen_call_id) ==
    [job |-> job, call_id |-> call_id, t |-> Threshold,
     keygen_call_id |-> IF job = "keygen" THEN 0 ELSE keygen_call_id,
     message |-> IF job = "sign" THEN Message ELSE <<>>,
     context |-> JobContext(Some(call_id), Some(BlueprintId))]

Issued(s) == s <= Len(calls)

\* the next value of the chain's call id counter
NextCallId == IF calls = <<>> THEN 1
              ELSE 1 + (CHOOSE m \in {calls[k].call_id : k \in 1..Len(calls)} :
                          \A k \in 1..Len(calls) : calls[k].call_id <= m)

\* the run of a job on one node: where it is and its local variables
\* (parties: the committee resolved at its start, as the accounts in index
\* order; read: the record the job got from the store at its start; wrote:
\* the number of its writes to the store)
IdleJob == [pc |-> "idle", i |-> 0, parties |-> <<>>, store_key |-> None,
            state |-> None, result |-> None,
            participants |-> <<>>, ret |-> None, err |-> "", read |-> None, wrote |-> 0]

\* the awaits at which a job future can be suspended
AwaitPcs == {"mpc", "primes", "aux", "refresh", "sign"}
EndPcs == {"done", "failed", "cancelled", "panicked"}

\* DfnsStore
DfnsStore(inner, refreshed_key, keyshare) ==
    [inner |-> inner, refreshed_key |-> refreshed_key, keyshare |-> keyshare]

store_get_OrDefault(p, key) ==
    IF key \in DOMAIN store[p] THEN Some(store[p][key])
    ELSE Some(DfnsStore(None, None, None))

\* LocalDatabase::get
store_get(p, key) == IF key \in DOMAIN store[p] THEN Some(store[p][key]) ELSE None

\* LocalDatabase::set: the store after the write
store_set(p, key, value) == [store EXCEPT ![p] = (key :> value) @@ @]

\* serde_json::to_vec
to_vec(x) == [json |-> x]

\* a channel NetworkDeliveryWrapper::new opened, and the ceremony run over it
\* (ran: the job went on to start the protocol on it)
Channel(eid, i, p, s, kind, params, ran) ==
    [eid |-> eid, i |-> i, node |-> p, slot |-> s, kind |-> kind, params |-> params,
     ran |-> ran]

\* the node of the operator with party index q in `parties`
NodeOf(parties, q) == parties[q + 1]

\* all parties the ceremony needs have joined it with the same parameters
\* (a remote party: whenever the environment has it join)
AllJoined(parties, eid, params, required) ==
    \A q \in required :
        \/ NodeOf(parties, q) \in remote
        \/ \E e \in net : e.eid = eid /\ e.i = q /\ e.ran /\ e.params = params

\* something a protocol run can fail on: a needed party stopped or misbehaved,
\* or messages of a run with other parameters, or of another job, arrive under
\* the same id
FaultCause(parties, s, eid, params, required) ==
    \/ \E q \in required : NodeOf(parties, q) \in crashed \cup remote
    \/ \E e \in net : e.eid = eid /\ e.ran /\ (e.params # params \/ e.slot # s)

JobFails(j, err) == [j EXCEPT !.pc = "failed", !.err = err]

\* Option::expect on None: the job's task unwinds, no value is returned
JobPanics(j) == [j EXCEPT !.pc = "panicked"]

\* the first step of each job: the committee and the own index, None (an
\* error) when the blueprint id is not in the configuration or the committee
\* cannot be resolved
ResolveParty(p, s, current_service_op) ==
    IF calls[s].context.blueprint_id = None THEN None
    ELSE get_party_index_and_operators(p, current_service_op)

\* a node takes the events in chain order; the jobs then run concurrently
CanStart(p, s) ==
    /\ p \notin crashed \cup remote
    /\ Issued(s)
    /\ jobs[p][s].pc = "idle"
    /\ \A r \in 1..(s - 1) : jobs[p][r].pc # "idle"

Running(p, s, pc) ==
    /\ p \notin crashed \cup remote
    /\ Issued(s)
    /\ jobs[p][s].pc = pc

seed_call_id_OwnCallId(s) == calls[s].call_id

\* the call id a job derives its store key from: its own for keygen, the
\* argument keygen_call_id for key_refresh and sign
seed_call_id(s) ==
    IF calls[s].job = "keygen" THEN calls[s].call_id ELSE calls[s].keygen_call_id

\* the store key the job of call s derives for the operators now registered
JobStoreKey(s) == StoreKey(CommitteeSize, BlueprintId, seed_call_id(s))

(***************************************************************************)
(* The chain and the environment.                                          *)
(***************************************************************************)
\* the chain issues a job call under the next call id
IssueCall ==
    /\ Len(calls) < MaxCalls
    /\ \E job \in JobKinds, k \in 1..MaxCalls :
          calls' = Append(calls, MkCall(job, NextCallId, k))
    /\ UNCHANGED <<jobs, store, net, crashed, remote, operators, prefs, ids>>

\* an event is delivered a second time, under the call id it had
Redeliver ==
    /\ Len(calls) < MaxCalls
    /\ \E r \in 1..Len(calls) : calls' = Append(calls, calls[r])
    /\ UNCHANGED <<jobs, store, net, crashed, remote, operators, prefs, ids>>

\* a node stops
Crash(p) ==
    /\ p \notin crashed \cup remote
    /\ Cardinality(crashed) < MaxCrashed
    /\ crashed' = crashed \cup {p}
    /\ UNCHANGED <<calls, jobs, store, net, remote, operators, prefs, ids>>

\* the runtime drops a job's future at an await
Cancel(p, s) ==
    /\ p \notin crashed \cup remote
    /\ Issued(s)
    /\ jobs[p][s].pc \in AwaitPcs
    /\ jobs' = [jobs EXCEPT ![p][s].pc = "cancelled", ![p][s].err = "cancelled"]
    /\ UNCHANGED <<calls, store, net, crashed, remote, operators, prefs, ids>>

(***************************************************************************)
(* keygen (src/src/keygen.rs)                                              *)
(***************************************************************************)
\* lines 50-90: resolve the committee, derive the ids, open the channel and
\* start the threshold keygen
KeygenStart(p, s) ==
    /\ CanStart(p, s)
    /\ calls[s].job = "keygen"
    /\ \E current_service_op \in current_service_operators :
          \E found \in {ResolveParty(p, s, current_service_op)} :
              IF found = None
              THEN /\ jobs' = [jobs EXCEPT ![p][s] = JobFails(@, "context")]
                   /\ net' = net
              ELSE IF calls[s].context.call_id = None
              THEN /\ jobs' = [jobs EXCEPT ![p][s] = JobPanics(@)]
                   /\ net' = net
              ELSE LET party_index == Unwrap(found)[1]
                       parties == Unwrap(found)[2]
                       n == Len(parties)
                       h == compute_deterministic_hashes(as_u16(n), BlueprintId,
                                                         calls[s].call_id)
                   IN  /\ jobs' = [jobs EXCEPT ![p][s].pc = "mpc",
                                               ![p][s].i = party_index,
                                               ![p][s].parties = parties,
                                               ![p][s].store_key = hex_encode(h[1])]
                       /\ net' = net \cup {Channel(h[2], party_index, p, s, "keygen",
                                                   <<as_u16(n), calls[s].t>>, TRUE)}
    /\ UNCHANGED <<calls, store, crashed, remote, operators, prefs, ids>>

\* lines 87-92: the keygen protocol returns the key share
KeygenMpcOk(p, s) ==
    /\ Running(p, s, "mpc")
    /\ LET parties == jobs[p][s].parties
       IN  AllJoined(parties, KeygenEid(Len(parties), BlueprintId, calls[s].call_id),
                     <<as_u16(Len(parties)), calls[s].t>>, PartyIndexes(parties))
    /\ jobs' = [jobs EXCEPT ![p][s].pc = "primes",
                            ![p][s].result = Some([shared_public_key |-> s,
                                                   min_signers |-> calls[s].t,
                                                   i |-> jobs[p][s].i])]
    /\ UNCHANGED <<calls, store, net, crashed, remote, operators, prefs, ids>>

\* line 92: the keygen protocol returns an error
KeygenMpcErr(p, s) ==
    /\ Running(p, s, "mpc")
    /\ LET parties == jobs[p][s].parties
       IN  FaultCause(parties, s, KeygenEid(Len(parties), BlueprintId, calls[s].call_id),
                      <<as_u16(Len(parties)), calls[s].t>>, PartyIndexes(parties))
    /\ jobs' = [jobs EXCEPT ![p][s] = JobFails(@, "mpc")]
    /\ UNCHANGED <<calls, store, net, crashed, remote, operators, prefs, ids>>

KeygenRecord_WithKeyshare(result, primes) ==
    DfnsStore(Some([pregenerated_primes |-> primes, public_key |-> result]), None,
              Some(result))

\* the record keygen writes (lines 107-114)
KeygenRecord(result, primes) ==
    DfnsStore(Some([pregenerated_primes |-> primes, public_key |-> result]), None, None)

\* lines 96-125: the primes are generated, the record is written, the results
\* are serialized
KeygenPersist(p, s) ==
    /\ Running(p, s, "primes")
    /\ store' = store_set(p, jobs[p][s].store_key,
                          KeygenRecord(Unwrap(jobs[p][s].result), s))
    /\ \E serialized \in BOOLEAN :
          jobs' = [jobs EXCEPT ![p][s] =
                      IF serialized
                      THEN [@ EXCEPT !.pc = "done", !.wrote = @ + 1,
                                     !.ret = Some(to_vec(Unwrap(jobs[p][s].result).shared_public_key))]
                      ELSE [JobFails(@, "serialization") EXCEPT !.wrote = @ + 1]]
    /\ UNCHANGED <<calls, net, crashed, remote, operators, prefs, ids>>

\* line 96 / 211: the blocking prime generation task fails
KeygenPrimesErr(p, s) ==
    /\ Running(p, s, "primes")
    /\ jobs' = [jobs EXCEPT ![p][s] = JobFails(@, "primes")]
    /\ UNCHANGED <<calls, store, net, crashed, remote, operators, prefs, ids>>

(***************************************************************************)
(* key_refresh (src/src/key_refresh.rs)                                    *)
(***************************************************************************)
keygen_output_FromRefreshed(state) ==
    IF IsSome(state.refreshed_key)
    THEN Some([pregenerated_primes |-> Unwrap(state.inner).pregenerated_primes,
               public_key |-> Unwrap(state.refreshed_key)])
    ELSE state.inner

\* lines 83-86: state.inner, the keygen output key_refresh works with
keygen_output(state) == state.inner

\* lines 34-96: resolve the committee, derive the ids, read the record, open
\* the channel of the aux-info ceremony and start it
RefreshStart(p, s) ==
    /\ CanStart(p, s)
    /\ calls[s].job = "key_refresh"
    /\ \E current_service_op \in current_service_operators :
          \E found \in {ResolveParty(p, s, current_service_op)} :
              IF found = None
              THEN /\ jobs' = [jobs EXCEPT ![p][s] = JobFails(@, "context")]
                   /\ net' = net
              ELSE IF calls[s].context.call_id = None
              THEN /\ jobs' = [jobs EXCEPT ![p][s] = JobPanics(@)]
                   /\ net' = net
              ELSE LET i == Unwrap(found)[1]
                       parties == Unwrap(found)[2]
                       n == Len(parties)
                       store_key == StoreKey(n, BlueprintId, seed_call_id(s))
                       state == store_get(p, store_key)
                       eid == AuxEid(n, BlueprintId, calls[s].keygen_call_id)
                       resolved == [jobs[p][s] EXCEPT !.i = i, !.parties = parties,
                                                      !.store_key = store_key]
                   IN  IF state = None
                       THEN /\ jobs' = [jobs EXCEPT ![p][s] =
                                          JobFails(resolved, "store_missing")]
                            /\ net' = net
                       ELSE /\ net' = net \cup {Channel(eid, i, p, s, "aux", <<as_u16(n)>>,
                                                        IsSome(keygen_output(Unwrap(state))))}
                            /\ jobs' = [jobs EXCEPT ![p][s] =
                                          IF IsSome(keygen_output(Unwrap(state)))
                                          THEN [resolved EXCEPT !.pc = "aux", !.state = state,
                                                                !.read = state]
                                          ELSE [JobFails(resolved, "keygen_output_missing")
                                                EXCEPT !.state = state, !.read = state]]
    /\ UNCHANGED <<calls, store, crashed, remote, operators, prefs, ids>>

\* the parameters of the key refresh ceremony of a job
RefreshParams(p, s) ==
    <<as_u16(Len(jobs[p][s].parties)),
      Unwrap(keygen_output(Unwrap(jobs[p][s].state))).public_key.min_signers>>

AuxRecord_IntoRefreshedKey(state, keyshare) == [state EXCEPT !.refreshed_key = Some(keyshare)]

\* the record key_refresh writes after the aux-info ceremony (lines 98-102)
AuxRecord(state, keyshare) == [state EXCEPT !.keyshare = Some(keyshare)]

\* lines 88-135: the aux-info ceremony returns; the key share is assembled,
\* stored in the record, and the key refresh ceremony starts on a new channel
RefreshAuxOk(p, s) ==
    /\ Running(p, s, "aux")
    /\ LET parties == jobs[p][s].parties
       IN  AllJoined(parties, AuxEid(Len(parties), BlueprintId, calls[s].keygen_call_id),
                     <<as_u16(Len(parties))>>, PartyIndexes(parties))
    /\ LET state == Unwrap(jobs[p][s].state)
           keygen_out == Unwrap(keygen_output(state))
           keyshare == [core |-> keygen_out.public_key, aux_info |-> s]
           written == AuxRecord(state, keyshare)
           eid == KeyRefreshEid(Len(jobs[p][s].parties), BlueprintId,
                                calls[s].keygen_call_id, calls[s].call_id)
       IN  /\ store' = store_set(p, jobs[p][s].store_key, written)
           /\ jobs' = [jobs EXCEPT ![p][s].pc = "refresh",
                                   ![p][s].state = Some(written),
                                   ![p][s].result = Some(keyshare),
                                   ![p][s].wrote = @ + 1]
           /\ net' = net \cup {Channel(eid, jobs[p][s].i, p, s, "key_refresh",
                                       RefreshParams(p, s), TRUE)}
    /\ UNCHANGED <<calls, crashed, remote, operators, prefs, ids>>

\* line 96 / 99: the aux-info ceremony (or the key share assembly) fails
RefreshAuxErr(p, s) ==
    /\ Running(p, s, "aux")
    /\ LET parties == jobs[p][s].parties
       IN  FaultCause(parties, s,
                      AuxEid(Len(parties), BlueprintId, calls[s].keygen_call_id),
                      <<as_u16(Len(parties))>>, PartyIndexes(parties))
    /\ jobs' = [jobs EXCEPT ![p][s] = JobFails(@, "aux")]
    /\ UNCHANGED <<calls, store, net, crashed, remote, operators, prefs, ids>>

RefreshedRecord_DropsKeyshare(state, result) ==
    [state EXCEPT !.refreshed_key = Some(result), !.keyshare = None]

\* the record key_refresh writes after the key refresh ceremony (lines 140-142)
RefreshedRecord(state, result) == [state EXCEPT !.refreshed_key = Some(result)]

\* what the key refresh protocol can hand back for a key share: a share of
\* the same shared public key, or (when a party misbehaves, or runs mix) a
\* share of another key
RefreshedKeys(keyshare, s, faulty) ==
    {[shared_public_key |-> pk, min_signers |-> keyshare.core.min_signers,
      i |-> keyshare.core.i, epoch |-> s]
        : pk \in {keyshare.core.shared_public_key}
                 \cup IF faulty THEN {0 - keyshare.core.shared_public_key} ELSE {}}

\* lines 130-149: the key refresh ceremony returns the refreshed key share;
\* it is stored in the record and the public key is returned
RefreshDone(p, s) ==
    /\ Running(p, s, "refresh")
    /\ LET parties == jobs[p][s].parties
           eid == KeyRefreshEid(Len(parties), BlueprintId,
                                calls[s].keygen_call_id, calls[s].call_id)
           state == Unwrap(jobs[p][s].state)
           keyshare == Unwrap(jobs[p][s].result)
           faulty == FaultCause(parties, s, eid, RefreshParams(p, s), PartyIndexes(parties))
       IN  /\ AllJoined(parties, eid, RefreshParams(p, s), PartyIndexes(parties))
           /\ \E result \in RefreshedKeys(keyshare, s, faulty) :
                 /\ store' = store_set(p, jobs[p][s].store_key,
                                       RefreshedRecord(state, result))
                 /\ jobs' = [jobs EXCEPT ![p][s].pc = "done",
                                         ![p][s].state = Some(RefreshedRecord(state, result)),
                                         ![p][s].result = Some(result),
                                         ![p][s].ret = Some(to_vec(result.shared_public_key)),
                                         ![p][s].wrote = @ + 1]
    /\ UNCHANGED <<calls, net, crashed, remote, operators, prefs, ids>>

\* line 137: the key refresh ceremony fails
RefreshErr(p, s) ==
    /\ Running(p, s, "refresh")
    /\ LET parties == jobs[p][s].parties
       IN  FaultCause(parties, s,
                      KeyRefreshEid(Len(parties), BlueprintId,
                                    calls[s].keygen_call_id, calls[s].call_id),
                      RefreshParams(p, s), PartyIndexes(parties))
    /\ jobs' = [jobs EXCEPT ![p][s] = JobFails(@, "refresh")]
    /\ UNCHANGED <<calls, store, net, crashed, remote, operators, prefs, ids>>

(***************************************************************************)
(* sign (src/src/signing.rs)                                               *)
(***************************************************************************)
Shuffled_WithRepeats(n, t) == [1..t -> 0..(n - 1)]

\* SliceRandom::shuffle: the vector in any order
shuffle(v) ==
    {[k \in 1..Len(v) |-> v[q[k]]] :
        q \in {r \in [1..Len(v) -> 1..Len(v)] : \A a, b \in 1..Len(v) : a # b => r[a] # r[b]}}

\* lines 94-96: (0..n) shuffled with the node's own OsRng, cut to its first t
\* entries: any t distinct indices in any order (none when t > n: the slice
\* panics)
Shuffled(n, t) ==
    IF t > n THEN {}
    ELSE {SubSeq(participants, 1, t) : participants \in shuffle([k \in 1..n |-> k - 1])}

\* DataToSign::digest::<Sha256>(&message_to_sign)
DataToSign(message) == compute_sha256_hash(message)

\* what the signing protocol can hand back: a signature of the digest under
\* the shared key, or (when a signer misbehaves, or runs mix) one that is not
Signatures(public_key, digest, faulty) ==
    {[key |-> public_key, digest |-> digest]}
    \cup IF faulty
         THEN {[key |-> 0, digest |-> digest],
               [key |-> public_key, digest |-> compute_sha256_hash(<<>>)]}
         ELSE {}

verify_Skipped(signature, public_key, digest) == TRUE

\* Signature::verify
verify(signature, public_key, digest) ==
    signature.key = public_key /\ signature.digest = digest

key_refresh_output_OrKeygenShare(state) ==
    IF IsSome(state.refreshed_key) THEN state.refreshed_key
    ELSE IF IsSome(state.inner) THEN Some(Unwrap(state.inner).public_key)
    ELSE None

\* lines 88-90: state.refreshed_key, the key share sign works with
key_refresh_output(state) == state.refreshed_key

\* lines 39-110: resolve the committee, derive the ids, read the record, open
\* the channel, choose the signers and start the signing protocol
SignStart(p, s) ==
    /\ CanStart(p, s)
    /\ calls[s].job = "sign"
    /\ \E current_service_op \in current_service_operators :
          \E found \in {ResolveParty(p, s, current_service_op)} :
              IF found = None
              THEN /\ jobs' = [jobs EXCEPT ![p][s] = JobFails(@, "context")]
                   /\ net' = net
              ELSE IF calls[s].context.call_id = None
              THEN /\ jobs' = [jobs EXCEPT ![p][s] = JobPanics(@)]
                   /\ net' = net
              ELSE LET i == Unwrap(found)[1]
                       parties == Unwrap(found)[2]
                       n == Len(parties)
                       store_key == StoreKey(n, BlueprintId, seed_call_id(s))
                       state == store_get(p, store_key)
                       eid == SignEid(n, BlueprintId, calls[s].keygen_call_id,
                                      calls[s].call_id)
                       resolved == [jobs[p][s] EXCEPT !.i = i, !.parties = parties,
                                                      !.store_key = store_key]
                   IN  IF state = None
                       THEN /\ jobs' = [jobs EXCEPT ![p][s] =
                                          JobFails(resolved, "store_missing")]
                            /\ net' = net
                       ELSE IF key_refresh_output(Unwrap(state)) = None
                       THEN /\ jobs' = [jobs EXCEPT ![p][s] =
                                          [JobFails(resolved, "keygen_output_missing")
                                           EXCEPT !.state = state, !.read = state]]
                            /\ net' = net \cup {Channel(eid, i, p, s, "sign", <<>>, FALSE)}
                       ELSE \E participants \in
                                 Shuffled(n, Unwrap(key_refresh_output(Unwrap(state))).min_signers) :
                            /\ jobs' = [jobs EXCEPT ![p][s] =
                                          [resolved EXCEPT !.pc = "sign", !.state = state,
                                                           !.read = state,
                                                           !.participants = participants]]
                            /\ net' = net \cup {Channel(eid, i, p, s, "sign",
                                                        participants, TRUE)}
    /\ UNCHANGED <<calls, store, crashed, remote, operators, prefs, ids>>

\* the signers a run was started with have all joined it, with the same set
SignersJoined(parties, eid, participants) ==
    \A q \in Range(participants) :
        \/ NodeOf(parties, q) \in remote
        \/ \E e \in net : e.eid = eid /\ e.i = q /\ e.ran
                          /\ Range(e.params) = Range(participants)

\* lines 109-123: the signing protocol returns a signature; it is verified
\* against the shared public key of the refreshed key read at the start, and
\* returned serialized
SignDone(p, s) ==
    /\ Running(p, s, "sign")
    /\ jobs[p][s].i \in Range(jobs[p][s].participants)
    /\ LET parties == jobs[p][s].parties
           eid == SignEid(Len(parties), BlueprintId,
                          calls[s].keygen_call_id, calls[s].call_id)
           public_key == Unwrap(key_refresh_output(Unwrap(jobs[p][s].state))).shared_public_key
           message_to_sign == DataToSign(calls[s].message)
           faulty == FaultCause(parties, s, eid, jobs[p][s].participants,
                                Range(jobs[p][s].participants))
       IN  /\ SignersJoined(parties, eid, jobs[p][s].participants)
           /\ \E signature \in Signatures(public_key, message_to_sign, faulty) :
                 jobs' = [jobs EXCEPT ![p][s] =
                            IF verify(signature, public_key, message_to_sign)
                            THEN [@ EXCEPT !.pc = "done", !.result = Some(signature),
                                           !.ret = Some(to_vec(signature))]
                            ELSE [JobFails(@, "verify") EXCEPT !.result = Some(signature)]]
    /\ UNCHANGED <<calls, store, net, crashed, remote, operators, prefs, ids>>

\* line 112: the signing protocol fails
SignErr(p, s) ==
    /\ Running(p, s, "sign")
    /\ \/ jobs[p][s].i \notin Range(jobs[p][s].participants)
       \/ LET parties == jobs[p][s].parties
          IN  FaultCause(parties, s,
                         SignEid(Len(parties), BlueprintId,
                                 calls[s].keygen_call_id, calls[s].call_id),
                         jobs[p][s].participants, Range(jobs[p][s].participants))
    /\ jobs' = [jobs EXCEPT ![p][s] = JobFails(@, "sign")]
    /\ UNCHANGED <<calls, store, net, crashed, remote, operators, prefs, ids>>

(***************************************************************************)
(* The specification of the jobs.                                          *)
(***************************************************************************)
NoIds == [n |-> 0, blueprint_id |-> 0, keygen_call_id |-> 0, c1 |-> 0, c2 |-> 0,
          eids |-> None]

\* the node whose jobs and store Spec follows; the other operators are remote
LocalNode == CHOOSE p \in Nodes : \A q \in Nodes : p <= q

Init ==
    /\ calls = <<>>
    /\ jobs = [p \in Nodes |-> [s \in Slots |-> IdleJob]]
    /\ store = [p \in Nodes |-> <<>>]
    /\ net = {}
    /\ crashed = {}
    /\ remote = Nodes \ {LocalNode}
    /\ operators = Nodes
    /\ prefs = Nodes
    /\ ids = NoIds

Next ==
    \/ IssueCall
    \/ Redeliver
    \/ \E p \in Nodes : Crash(p)
    \/ \E p \in Nodes, s \in Slots :
          \/ Cancel(p, s)
          \/ KeygenStart(p, s)
          \/ KeygenMpcOk(p, s)
          \/ KeygenMpcErr(p, s)
          \/ KeygenPersist(p, s)
          \/ KeygenPrimesErr(p, s)
          \/ RefreshStart(p, s)
          \/ RefreshAuxOk(p, s)
          \/ RefreshAuxErr(p, s)
          \/ RefreshDone(p, s)
          \/ RefreshErr(p, s)
          \/ SignStart(p, s)
          \/ SignDone(p, s)
          \/ SignErr(p, s)

Spec == Init /\ [][Next]_vars

(***************************************************************************)
(* The specification of all nodes, from the state in which a keygen        *)
(* (call 1) and a key refresh of it (call 2) have completed on every node. *)
(***************************************************************************)
NetKeygenResult(p) == [shared_public_key |-> 1, min_signers |-> Threshold, i |-> p]
NetKeyshare(p) == [core |-> NetKeygenResult(p), aux_info |-> 2]
NetRefreshed(p) == [shared_public_key |-> 1, min_signers |-> Threshold, i |-> p, epoch |-> 2]
NetRecord(p) ==
    RefreshedRecord(AuxRecord(KeygenRecord(NetKeygenResult(p), 1), NetKeyshare(p)),
                    NetRefreshed(p))

InitNet ==
    /\ calls = <<MkCall("keygen", 1, 0), MkCall("key_refresh", 2, 1)>>
    /\ jobs = [p \in Nodes |-> [s \in Slots |->
                 IF s = 1
                 THEN [IdleJob EXCEPT !.pc = "done", !.i = p,
                                      !.parties = SortedSeq(Nodes),
                                      !.store_key = StoreKey(NumNodes, BlueprintId, 1),
                                      !.result = Some(NetKeygenResult(p)),
                                      !.ret = Some(to_vec(1)), !.wrote = 1]
                 ELSE IF s = 2
                 THEN [IdleJob EXCEPT !.pc = "done", !.i = p,
                                      !.parties = SortedSeq(Nodes),
                                      !.store_key = StoreKey(NumNodes, BlueprintId, 1),
                                      !.state = Some(NetRecord(p)),
                                      !.read = Some(KeygenRecord(NetKeygenResult(p), 1)),
                                      !.result = Some(NetRefreshed(p)),
                                      !.ret = Some(to_vec(1)), !.wrote = 2]
                 ELSE IdleJob]]
    /\ store = [p \in Nodes |-> (StoreKey(NumNodes, BlueprintId, 1) :> NetRecord(p))]
    /\ net = UNION {{Channel(KeygenEid(NumNodes, BlueprintId, 1), p, p, 1, "keygen",
                             <<as_u16(NumNodes), Threshold>>, TRUE),
                     Channel(AuxEid(NumNodes, BlueprintId, 1), p, p, 2, "aux",
                             <<as_u16(NumNodes)>>, TRUE),
                     Channel(KeyRefreshEid(NumNodes, BlueprintId, 1, 2), p, p, 2,
                             "key_refresh", <<as_u16(NumNodes), Threshold>>, TRUE)}
                    : p \in Nodes}
    /\ crashed = {}
    /\ remote = {}
    /\ operators = Nodes
    /\ prefs = Nodes
    /\ ids = NoIds

SpecNet == InitNet /\ [][Next]_vars

\* the steps a live node's runtime and the protocol library take when they can
Progress ==
    \E p \in Nodes, s \in Slots :
        \/ KeygenStart(p, s) \/ KeygenMpcOk(p, s) \/ KeygenPersist(p, s)
        \/ RefreshStart(p, s) \/ RefreshAuxOk(p, s) \/ RefreshDone(p, s)
        \/ SignStart(p, s) \/ SignDone(p, s)

FairSpecNet == SpecNet /\ WF_vars(Progress)

(***************************************************************************)
(* The specification of the id derivation alone.                           *)
(***************************************************************************)
InitIds ==
    /\ calls = <<>>
    /\ jobs = [p \in Nodes |-> [s \in Slots |-> IdleJob]]
    /\ store = [p \in Nodes |-> <<>>]
    /\ net = {}
    /\ crashed = {}
    /\ remote = Nodes \ {LocalNode}
    /\ operators = Nodes
    /\ prefs = Nodes
    /\ ids \in [n : 1..MaxN, blueprint_id : 0..MaxBlueprint, keygen_call_id : 0..MaxCallId,
                c1 : 0..MaxCallId, c2 : 0..MaxCallId, eids : {None}]

\* the six execution ids of one keygen lineage and two call ids, as the jobs
\* derive them: keygen, aux-info, refresh(c1), sign(c1), refresh(c2), sign(c2)
DeriveIds ==
    /\ ids.n > 0
    /\ ids.eids = None
    /\ ids' = [ids EXCEPT !.eids =
                 <<KeygenEid(ids.n, ids.blueprint_id, ids.keygen_call_id),
                   AuxEid(ids.n, ids.blueprint_id, ids.keygen_call_id),
                   KeyRefreshEid(ids.n, ids.blueprint_id, ids.keygen_call_id, ids.c1),
                   SignEid(ids.n, ids.blueprint_id, ids.keygen_call_id, ids.c1),
                   KeyRefreshEid(ids.n, ids.blueprint_id, ids.keygen_call_id, ids.c2),
                   SignEid(ids.n, ids.blueprint_id, ids.keygen_call_id, ids.c2)>>]
    /\ UNCHANGED <<calls, jobs, store, net, crashed, remote, operators, prefs>>

SpecIds == InitIds /\ [][DeriveIds]_vars

(***************************************************************************)
(* The specification of the jobs of one node while operators leave the     *)
(* service: the node followed is the operator with the largest account,    *)
(* whose position in the committee moves when another operator leaves.     *)
(***************************************************************************)
\* an operator is removed from the service on chain
OperatorLeaves ==
    /\ Cardinality(operators) > MinOperators
    /\ \E a \in operators : operators' = operators \ {a}
    /\ UNCHANGED <<calls, jobs, store, net, crashed, remote, prefs, ids>>

LastNode == CHOOSE p \in Nodes : \A q \in Nodes : q <= p

InitOps ==
    /\ calls = <<>>
    /\ jobs = [p \in Nodes |-> [s \in Slots |-> IdleJob]]
    /\ store = [p \in Nodes |-> <<>>]
    /\ net = {}
    /\ crashed = {}
    /\ remote = Nodes \ {LastNode}
    /\ operators = Nodes
    /\ prefs = Nodes
    /\ ids = NoIds

NextOps == Next \/ OperatorLeaves

SpecOps == InitOps /\ [][NextOps]_vars

(***************************************************************************)
(* The specification of the committee resolution: every node is followed,  *)
(* any non-empty set of the accounts is registered on chain, and the jobs  *)
(* are taken as far as their start.                                        *)
(***************************************************************************)
InitIdx ==
    /\ calls = <<>>
    /\ jobs = [p \in Nodes |-> [s \in Slots |-> IdleJob]]
    /\ store = [p \in Nodes |-> <<>>]
    /\ net = {}
    /\ crashed = {}
    /\ remote = {}
    /\ operators \in SUBSET Nodes \ {{}}
    /\ prefs = Nodes
    /\ ids = NoIds

NextIdx ==
    \/ IssueCall
    \/ \E p \in Nodes, s \in Slots :
          \/ KeygenStart(p, s)
          \/ RefreshStart(p, s)
          \/ SignStart(p, s)

SpecIdx == InitIdx /\ [][NextIdx]_vars

(***************************************************************************)
(* The specification of the first steps of the jobs of one node under any  *)
(* context: any non-empty set of operators is registered, any of the       *)
(* accounts have their preferences in the chain storage, and a job is      *)
(* invoked with or without a call id and a blueprint id.                   *)
(***************************************************************************)
\* a job is invoked with a context in which the call id or the blueprint id
\* may not be set
InvokeWithContext ==
    /\ Len(calls) < MaxInvocations
    /\ \E job \in JobKinds, k \in 1..MaxInvocations,
          has_call_id \in BOOLEAN, has_blueprint_id \in BOOLEAN :
          calls' = Append(calls,
                          [MkCall(job, NextCallId, k) EXCEPT !.context =
                              JobContext(IF has_call_id THEN Some(NextCallId) ELSE None,
                                         IF has_blueprint_id THEN Some(BlueprintId)
                                         ELSE None)])
    /\ UNCHANGED <<jobs, store, net, crashed, remote, operators, prefs, ids>>

InitCtx ==
    /\ calls = <<>>
    /\ jobs = [p \in Nodes |-> [s \in Slots |-> IdleJob]]
    /\ store = [p \in Nodes |-> <<>>]
    /\ net = {}
    /\ crashed = {}
    /\ remote = Nodes \ {LocalNode}
    /\ operators \in SUBSET Nodes \ {{}}
    /\ prefs \in SUBSET Nodes
    /\ ids = NoIds

NextCtx ==
    \/ InvokeWithContext
    \/ \E p \in Nodes, s \in Slots :
          \/ KeygenStart(p, s)
          \/ RefreshStart(p, s)
          \/ SignStart(p, s)

SpecCtx == InitCtx /\ [][NextCtx]_vars

(***************************************************************************)
(* The specification of the jobs of one node while operators leave and     *)
(* join the service: the node followed is an operator whose position in    *)
(* the committee depends on which other operators are registered.          *)
(***************************************************************************)
\* an account is registered as operator of the service on chain
OperatorJoins ==
    /\ \E a \in Nodes \ operators : operators' = operators \cup {a}
    /\ UNCHANGED <<calls, jobs, store, net, crashed, remote, prefs, ids>>

MiddleNode == CHOOSE p \in Nodes : p # LocalNode /\ p # LastNode

InitChurn ==
    /\ calls = <<>>
    /\ jobs = [p \in Nodes |-> [s \in Slots |-> IdleJob]]
    /\ store = [p \in Nodes |-> <<>>]
    /\ net = {}
    /\ crashed = {}
    /\ remote = Nodes \ {MiddleNode}
    /\ operators = Nodes
    /\ prefs = Nodes
    /\ ids = NoIds

NextChurn ==
    \/ IssueCall
    \/ OperatorLeaves
    \/ OperatorJoins
    \/ \E p \in Nodes, s \in Slots :
          \/ KeygenStart(p, s)
          \/ KeygenMpcOk(p, s)
          \/ KeygenPersist(p, s)
          \/ RefreshStart(p, s)
          \/ RefreshAuxOk(p, s)
          \/ RefreshDone(p, s)
          \/ SignStart(p, s)
          \/ SignDone(p, s)

SpecChurn == InitChurn /\ [][NextChurn]_vars

(***************************************************************************)
(* Properties.                                                             *)
(***************************************************************************)
JobIs(s, kind) == Issued(s) /\ calls[s].job = kind

\* C1: for one keygen lineage (n, blueprint_id, keygen_call_id) and two call
\* ids c1 # c2, the execution ids derived for keygen, aux-info, refresh(c1),
\* sign(c1), refresh(c2) and sign(c2) are pairwise distinct (SHA-256 taken as
\* injective).
C1_EidsPairwiseDistinct ==
    (ids.eids # None /\ ids.c1 # ids.c2)
        => \A a, b \in 1..6 : a # b => ids.eids[a] # ids.eids[b]

C1_Witness == ids.eids # None /\ ids.c1 # ids.c2 /\ ids.c1 > 0 /\ ids.keygen_call_id > 0

\* every issued call has a call id of its own
FreshCallIds ==
    \A a, b \in 1..Len(calls) : a # b => calls[a].call_id # calls[b].call_id

\* C2: when every job call has a fresh call id, no execution id is used by
\* two different ceremonies (two ceremonies of one job, or ceremonies of two
\* job calls); in particular not by the aux-info ceremonies of two key_refresh
\* calls on the same keygen_call_id.
C2_NoEidReuse ==
    FreshCallIds =>
        \A e1, e2 \in net :
            (e1.ran /\ e2.ran /\ (e1.slot # e2.slot \/ e1.kind # e2.kind))
                => e1.eid # e2.eid

\* C3: in every step, a record whose keygen_output (inner) is Some keeps it
\* Some, and one whose refreshed_key or aux key share is Some keeps it Some.
C3_StoreMonotone ==
    [][\A p \in Nodes : \A k \in DOMAIN store[p] :
          /\ k \in DOMAIN store'[p]
          /\ IsSome(store[p][k].inner) => IsSome(store'[p][k].inner)
          /\ IsSome(store[p][k].refreshed_key) => IsSome(store'[p][k].refreshed_key)
          /\ IsSome(store[p][k].keyshare) => IsSome(store'[p][k].keyshare)]_vars

\* C4: every record of every store has refreshed_key Some only if the aux key
\* share is Some, and the aux key share Some only if keygen_output is Some.
C4_Provenance ==
    \A p \in Nodes : \A k \in DOMAIN store[p] :
        /\ IsSome(store[p][k].refreshed_key) => IsSome(store[p][k].keyshare)
        /\ IsSome(store[p][k].keyshare) => IsSome(store[p][k].inner)

C4_Witness ==
    \E p \in Nodes : \E k \in DOMAIN store[p] :
        /\ IsSome(store[p][k].refreshed_key)
        /\ \E s \in Slots : JobIs(s, "key_refresh") /\ jobs[p][s].pc = "done"
                            /\ JobStoreKey(s) = k

\* C5: a keygen job that starts while its store key already has a record
\* fails at once (DuplicateKeygen) and leaves the store as it is.
C5_DuplicateKeygenFails ==
    [][\A p \in Nodes, s \in Slots :
          (/\ JobIs(s, "keygen")
           /\ jobs[p][s].pc = "idle"
           /\ jobs'[p][s].pc # "idle"
           /\ JobStoreKey(s) \in DOMAIN store[p])
              => (jobs'[p][s].pc = "failed" /\ store' = store)]_vars

\* the fields of the record that hold what the key_refresh job of slot s made
WrittenBy(record, s) ==
    \/ IsSome(record.keyshare) /\ Unwrap(record.keyshare).aux_info = s
    \/ IsSome(record.refreshed_key) /\ Unwrap(record.refreshed_key).epoch = s

\* C6: after a key_refresh job failed or was cancelled, no field it wrote is
\* in the record of its store key (the record is the one from before the job).
C6_NoPartialRefresh ==
    \A p \in Nodes, s \in Slots :
        (/\ JobIs(s, "key_refresh")
         /\ jobs[p][s].pc \in {"failed", "cancelled"}
         /\ JobStoreKey(s) \in DOMAIN store[p])
            => ~WrittenBy(store[p][JobStoreKey(s)], s)

\* C7: a keygen job that returned an error has written no record.
C7_FailedKeygenWroteNothing ==
    \A p \in Nodes, s \in Slots :
        (JobIs(s, "keygen") /\ jobs[p][s].pc = "failed") => jobs[p][s].wrote = 0

\* a sign job on node p that chose its signers
ChoseSigners(p, s) == JobIs(s, "sign") /\ jobs[p][s].participants # <<>>

\* C8: in one sign call, any two nodes that chose signers chose the same set.
C8_SameSigners ==
    \A s \in Slots : \A p, q \in Nodes :
        (ChoseSigners(p, s) /\ ChoseSigners(q, s))
            => Range(jobs[p][s].participants) = Range(jobs[q][s].participants)

\* a signature of the digest under the key
ValidSignature(signature, public_key, digest) ==
    signature.key = public_key /\ signature.digest = digest

\* the shared public key of the refreshed key a sign job read from the store
StoredPublicKey(p, s) == Unwrap(Unwrap(jobs[p][s].read).refreshed_key).shared_public_key

\* the sign job of node p for call s started the signing protocol, p among the
\* signers it chose
SignRuns(p, s) ==
    /\ ChoseSigners(p, s)
    /\ jobs[p][s].i \in Range(jobs[p][s].participants)

\* it returned a signature that verifies against the shared public key
SignSucceeded(p, s) ==
    /\ JobIs(s, "sign")
    /\ jobs[p][s].pc = "done"
    /\ IsSome(jobs[p][s].ret)
    /\ ValidSignature(Unwrap(jobs[p][s].result), StoredPublicKey(p, s),
                      DataToSign(calls[s].message))

\* a signer chosen for the call, by any node, has stopped or had its sign job
\* cancelled
SignDisturbed(p, s) ==
    /\ JobIs(s, "sign")
    /\ \E r \in Nodes :
          \E q \in Range(jobs[r][s].participants) :
              \/ NodeOf(jobs[r][s].parties, q) \in crashed
              \/ jobs[NodeOf(jobs[r][s].parties, q)][s].pc = "cancelled"

\* C9: after keygen and key refresh completed on all nodes, a sign job whose
\* chosen signers (the node itself among them) all stay live eventually
\* returns a signature that verifies against the shared public key: from some
\* point on, every such job has done so.  (A job that started the protocol
\* stays started, and success, a stopped signer and cancellation are final.)
C9_SignCompletes ==
    <>[](\A p \in Nodes, s \in Slots :
            SignRuns(p, s) => (SignSucceeded(p, s) \/ SignDisturbed(p, s)))

\* C10: a sign job returns bytes only when done, and they are the signature
\* the protocol gave, valid for the digest of the requested message under the
\* shared public key of the refreshed key read from the store; a job whose
\* protocol gave a signature that is not valid returns an error and no bytes.
C10_ReturnsOnlyVerified ==
    \A p \in Nodes, s \in Slots :
        JobIs(s, "sign") =>
            /\ IsSome(jobs[p][s].ret) =>
                  /\ jobs[p][s].pc = "done"
                  /\ jobs[p][s].ret = Some(to_vec(Unwrap(jobs[p][s].result)))
            /\ IsSome(jobs[p][s].result) =>
                  IF ValidSignature(Unwrap(jobs[p][s].result), StoredPublicKey(p, s),
                                    DataToSign(calls[s].message))
                  THEN jobs[p][s].pc = "done"
                  ELSE jobs[p][s].pc = "failed" /\ jobs[p][s].ret = None

C10_Witness ==
    \E p \in Nodes, s \in Slots :
        /\ JobIs(s, "sign")
        /\ jobs[p][s].pc = "done"
        /\ IsSome(jobs[p][s].ret)
        /\ StoredPublicKey(p, s) = 1

\* C11: in every record of every store, the refreshed key has the shared
\* public key of the keygen output; a key refresh whose protocol handed back a
\* share of another public key has failed and its share is not in the store.
C11_PublicKeyUnchanged ==
    /\ \A p \in Nodes : \A k \in DOMAIN store[p] :
          (IsSome(store[p][k].refreshed_key) /\ IsSome(store[p][k].inner))
              => Unwrap(store[p][k].refreshed_key).shared_public_key
                   = Unwrap(store[p][k].inner).public_key.shared_public_key
    /\ \A p \in Nodes, s \in Slots :
          (/\ JobIs(s, "key_refresh")
           /\ IsSome(jobs[p][s].result)
           /\ jobs[p][s].pc \notin {"refresh", "cancelled"}
           /\ "epoch" \in DOMAIN Unwrap(jobs[p][s].result)
           /\ Unwrap(jobs[p][s].result).shared_public_key
                # Unwrap(Unwrap(jobs[p][s].read).inner).public_key.shared_public_key)
              => jobs[p][s].pc = "failed"

\* a step in which node p's job for call s leaves its start
Starts(p, s) == jobs[p][s].pc = "idle" /\ jobs'[p][s].pc # "idle"

\* the channels a step opens on which a protocol is run
CeremoniesStarted == {e \in net' \ net : e.ran}

\* C12: a key_refresh job that starts when the store has no record under its
\* key fails with the store-missing error, opens no channel and leaves the
\* store as it is; one that finds a record without keygen output fails too,
\* runs no ceremony and leaves the store as it is.
C12_RefreshWithoutKeygen ==
    [][\A p \in Nodes, s \in Slots :
          (JobIs(s, "key_refresh") /\ Starts(p, s) /\ p \in operators) =>
             /\ JobStoreKey(s) \notin DOMAIN store[p] =>
                   /\ jobs'[p][s].pc = "failed"
                   /\ jobs'[p][s].err = "store_missing"
                   /\ net' = net
                   /\ store' = store
             /\ (/\ JobStoreKey(s) \in DOMAIN store[p]
                 /\ store[p][JobStoreKey(s)].inner = None) =>
                   /\ jobs'[p][s].pc = "failed"
                   /\ CeremoniesStarted = {}
                   /\ store' = store]_vars

C12_Witness ==
    \E p \in Nodes, s \in Slots :
        /\ JobIs(s, "key_refresh")
        /\ jobs[p][s].pc = "failed"
        /\ jobs[p][s].err = "store_missing"
        /\ JobStoreKey(s) \notin DOMAIN store[p]
        /\ \A e \in net : e.slot # s

\* C13: a sign job that starts when the store has no record under its key, or
\* a record whose refreshed_key is None, fails with the store-missing error,
\* runs no signing protocol, returns no signature and leaves the store as it
\* is.
C13_SignWithoutRefresh ==
    [][\A p \in Nodes, s \in Slots :
          (/\ JobIs(s, "sign") /\ Starts(p, s) /\ p \in operators
           /\ \/ JobStoreKey(s) \notin DOMAIN store[p]
              \/ store[p][JobStoreKey(s)].refreshed_key = None) =>
             /\ jobs'[p][s].pc = "failed"
             /\ jobs'[p][s].err \in {"store_missing", "keygen_output_missing"}
             /\ jobs'[p][s].ret = None
             /\ jobs'[p][s].participants = <<>>
             /\ CeremoniesStarted = {}
             /\ store' = store]_vars

C13_Witness ==
    \E p \in Nodes, s \in Slots :
        /\ JobIs(s, "sign")
        /\ jobs[p][s].pc = "failed"
        /\ jobs[p][s].err = "keygen_output_missing"
        /\ JobStoreKey(s) \in DOMAIN store[p]
        /\ IsSome(store[p][JobStoreKey(s)].inner)
        /\ store[p][JobStoreKey(s)].refreshed_key = None

\* the nodes that chose signers for call s did not all choose the same set
SignersDisagree(s) ==
    \E p, q \in Nodes :
        /\ ChoseSigners(p, s) /\ ChoseSigners(q, s)
        /\ Range(jobs[p][s].participants) # Range(jobs[q][s].participants)

\* C14: every ceremony a live node started eventually ends (done, failed with
\* an error such as a timeout, or cancelled), also when a committee member has
\* stopped: from some point on, no job of a live node waits on a protocol
\* (sign jobs whose nodes chose different signer sets set aside).
C14_CeremoniesTerminate ==
    <>[](\A p \in Nodes \ crashed, s \in Slots :
            jobs[p][s].pc \in AwaitPcs => SignersDisagree(s))

\* a job of node p that is between its start and its end
InFlight(p, s) == Issued(s) /\ jobs[p][s].pc \in AwaitPcs

\* C15: on one node (job calls with fresh call ids), no two jobs with the
\* same store key are in flight at once, and the record a key_refresh job in
\* flight holds for its next write is the record now in the store.
C15_OneCeremonyPerKey ==
    FreshCallIds =>
        \A p \in Nodes :
            /\ \A s1, s2 \in Slots :
                  (s1 # s2 /\ InFlight(p, s1) /\ InFlight(p, s2))
                      => jobs[p][s1].store_key # jobs[p][s2].store_key
            /\ \A s \in Slots :
                  (InFlight(p, s) /\ JobIs(s, "key_refresh"))
                      => store_get(p, jobs[p][s].store_key) = jobs[p][s].state

\* node p's job for call s resolved a committee
Resolved(p, s) == Issued(s) /\ jobs[p][s].parties # <<>>

\* C16: from one set of registered operators, any two nodes resolve the same
\* index mapping; it lists the operators in account order, each exactly once,
\* under the indices 0..n-1, and a node's own index is the position of its
\* account.
C16_SameIndexMapping ==
    \A p \in Nodes, s \in Slots :
        Resolved(p, s) =>
            LET parties == jobs[p][s].parties
            IN  /\ \A q \in Nodes, r \in Slots :
                      Resolved(q, r) => jobs[q][r].parties = parties
                /\ Range(parties) = operators
                /\ Len(parties) = Cardinality(operators)
                /\ \A a, b \in 1..Len(parties) : a < b => parties[a] < parties[b]
                /\ jobs[p][s].i \in PartyIndexes(parties)
                /\ parties[jobs[p][s].i + 1] = p

C16_Witness ==
    \E p, q \in Nodes, s \in Slots :
        /\ p # q
        /\ Resolved(p, s) /\ Resolved(q, s)
        /\ jobs[q][s].i # q

\* C17: any two nodes that run the job of one call with committees of the
\* same size derive the same store key, and open the channel of each of its
\* ceremonies under the same execution id.
C17_SameIdsOnAllNodes ==
    /\ \A p, q \in Nodes, s \in Slots :
          (/\ Resolved(p, s) /\ Resolved(q, s)
           /\ Len(jobs[p][s].parties) = Len(jobs[q][s].parties))
              => jobs[p][s].store_key = jobs[q][s].store_key
    /\ \A e1, e2 \in net :
          (/\ e1.slot = e2.slot /\ e1.kind = e2.kind
           /\ Len(jobs[e1.node][e1.slot].parties) = Len(jobs[e2.node][e2.slot].parties))
              => e1.eid = e2.eid

C17_Witness ==
    \E e1, e2 \in net :
        /\ e1.node # e2.node
        /\ e1.slot = e2.slot /\ e1.kind = e2.kind /\ e1.kind = "sign"
        /\ e1.slot > 2
        /\ jobs[e1.node][e1.slot].store_key = jobs[e2.node][e2.slot].store_key

\* C18: a key_refresh or sign job with argument keygen_call_id = k uses the
\* store key that the keygen job with call id k used (committees of the same
\* size), whatever its own call id; every record its node's store holds after
\* one of its steps that was not there, or not the same, before is under that
\* key.
C18_UsesKeygenStoreKey ==
    [][\A p \in Nodes, s \in Slots :
          (/\ Issued(s) /\ calls[s].job \in {"key_refresh", "sign"}
           /\ jobs'[p][s] # jobs[p][s]
           /\ jobs'[p][s].store_key # None) =>
             /\ \A r \in Slots :
                   (/\ JobIs(r, "keygen")
                    /\ calls[r].call_id = calls[s].keygen_call_id
                    /\ jobs[p][r].store_key # None
                    /\ Len(jobs[p][r].parties) = Len(jobs'[p][s].parties))
                       => jobs'[p][s].store_key = jobs[p][r].store_key
             /\ jobs'[p][s].store_key
                  = StoreKey(Len(jobs'[p][s].parties), BlueprintId, calls[s].keygen_call_id)
             /\ \A k \in DOMAIN store'[p] :
                   (k \notin DOMAIN store[p] \/ store'[p][k] # store[p][k])
                       => k = jobs'[p][s].store_key
             /\ IsSome(jobs'[p][s].read)
                   => jobs'[p][s].read = store_get(p, jobs'[p][s].store_key)
                      \/ jobs[p][s].read = jobs'[p][s].read]_vars

C18_Witness ==
    \E p \in Nodes, s, r \in Slots :
        /\ JobIs(r, "keygen") /\ JobIs(s, "key_refresh")
        /\ calls[s].call_id # calls[s].keygen_call_id
        /\ calls[r].call_id = calls[s].keygen_call_id
        /\ jobs[p][s].pc = "done"
        /\ jobs[p][s].store_key = jobs[p][r].store_key

\* C19: a job that starts on a node whose account is not among the
\* registered operators fails at once with the context error; the step opens
\* no channel and leaves the store as it is.
C19_NotInCommitteeFailsFast ==
    [][\A p \in Nodes, s \in Slots :
          (Issued(s) /\ Starts(p, s) /\ p \notin operators) =>
             /\ jobs'[p][s] = JobFails(jobs[p][s], "context")
             /\ net' = net
             /\ store' = store]_vars

C19_Witness ==
    \E p \in Nodes, s \in Slots :
        /\ Issued(s)
        /\ jobs[p][s].pc = "failed" /\ jobs[p][s].err = "context"
        /\ p \notin operators
        /\ DOMAIN store[p] # {}
        /\ \A e \in net : ~(e.node = p /\ e.slot = s)

\* the order in which a keygen job moves: Ready (idle), Running(mpc),
\* GeneratingPrimes (primes), then Persisting and Done in one step
KeygenOrder ==
    {<<"idle", "mpc">>, <<"idle", "failed">>,
     <<"mpc", "primes">>, <<"mpc", "failed">>, <<"mpc", "cancelled">>,
     <<"primes", "done">>, <<"primes", "failed">>, <<"primes", "cancelled">>}

\* C20: a keygen job moves idle, mpc, primes, done in that order (or ends
\* early); its node's store changes in a step of the job only when the
\* keygen protocol has returned a key share and the primes are generated, and
\* then by exactly one record, under hex(SessionKey), with the keygen output
\* Some and the aux key share and refreshed key None; a job that is done has
\* written it.
C20_KeygenOrder ==
    [][\A p \in Nodes, s \in Slots :
          (JobIs(s, "keygen") /\ jobs'[p][s] # jobs[p][s]) =>
             LET key == hex_encode(compute_deterministic_hashes(
                                      as_u16(Len(jobs'[p][s].parties)), BlueprintId,
                                      calls[s].call_id)[1])
                 record == [inner |-> Some([pregenerated_primes |-> s,
                                            public_key |-> Unwrap(jobs[p][s].result)]),
                            refreshed_key |-> None, keyshare |-> None]
             IN  /\ <<jobs[p][s].pc, jobs'[p][s].pc>> \in KeygenOrder
                 /\ jobs[p][s].pc = "mpc" => store' = store
                 /\ jobs[p][s].pc = "idle" => store' = store
                 /\ store' # store =>
                       /\ jobs[p][s].pc = "primes"
                       /\ IsSome(jobs[p][s].result)
                       /\ store' = [store EXCEPT ![p] = (key :> record) @@ @]
                 /\ jobs'[p][s].pc = "done" =>
                       /\ key \in DOMAIN store'[p]
                       /\ store'[p][key] = record
                       /\ jobs'[p][s].wrote = 1]_vars

C20_Witness ==
    \E p \in Nodes, s \in Slots :
        /\ JobIs(s, "keygen")
        /\ jobs[p][s].pc = "done"
        /\ jobs[p][s].store_key \in DOMAIN store[p]
        /\ store[p][jobs[p][s].store_key].keyshare = None

\* the key refresh ceremonies the step opens for the job of call s on node p
RefreshCeremoniesStarted(p, s) ==
    {e \in net' \ net : e.node = p /\ e.slot = s /\ e.kind = "key_refresh"}

\* C21: within one key_refresh job, the key refresh ceremony starts only in
\* the step in which the aux-info ceremony has returned and the key share
\* built from its aux info is in the store, and it runs on that key share;
\* the refreshed key of the job gets into the store only in the step in which
\* its key refresh ceremony has returned Ok; and when the job ends with
\* success the record in the store has both the key share and the refreshed
\* key Some.
C21_RefreshOrder ==
    [][\A p \in Nodes, s \in Slots :
          /\ (RefreshCeremoniesStarted(p, s) # {} \/ (jobs[p][s].pc # "refresh"
                                                      /\ jobs'[p][s].pc = "refresh"))
                => /\ jobs[p][s].pc = "aux" /\ jobs'[p][s].pc = "refresh"
                   /\ RefreshCeremoniesStarted(p, s) # {}
                   /\ LET keyshare == Unwrap(jobs'[p][s].result)
                          key == jobs[p][s].store_key
                      IN  /\ keyshare.aux_info = s
                          /\ keyshare.core = Unwrap(Unwrap(jobs[p][s].read).inner).public_key
                          /\ key \in DOMAIN store'[p]
                          /\ store'[p][key].keyshare = Some(keyshare)
          /\ \A key \in DOMAIN store'[p] :
                (/\ IsSome(store'[p][key].refreshed_key)
                 /\ Unwrap(store'[p][key].refreshed_key).epoch = s
                 /\ ~(key \in DOMAIN store[p]
                       /\ store[p][key].refreshed_key = store'[p][key].refreshed_key))
                    => /\ jobs[p][s].pc = "refresh" /\ jobs'[p][s].pc = "done"
                       /\ key = jobs[p][s].store_key
          /\ (JobIs(s, "key_refresh") /\ jobs[p][s].pc # "done" /\ jobs'[p][s].pc = "done")
                => /\ jobs[p][s].pc = "refresh"
                   /\ LET key == jobs[p][s].store_key
                      IN  /\ key \in DOMAIN store'[p]
                          /\ store'[p][key].keyshare = jobs[p][s].result
                          /\ IsSome(store'[p][key].keyshare)
                          /\ store'[p][key].refreshed_key = jobs'[p][s].result
                          /\ IsSome(store'[p][key].refreshed_key)
                          /\ Unwrap(store'[p][key].refreshed_key).i
                                = Unwrap(jobs[p][s].result).core.i]_vars

C21_Witness ==
    \E p \in Nodes, s \in Slots :
        /\ JobIs(s, "key_refresh") /\ jobs[p][s].pc = "done" /\ jobs[p][s].wrote = 2
        /\ jobs[p][s].store_key \in DOMAIN store[p]
        /\ IsSome(store[p][jobs[p][s].store_key].keyshare)
        /\ IsSome(store[p][jobs[p][s].store_key].refreshed_key)

\* the channels on which node p went on to run the signing protocol for call s
SignRounds(p, s) == {e \in net : e.node = p /\ e.slot = s /\ e.kind = "sign" /\ e.ran}

\* C22: in a sign job that chose its signers, a party whose index is not
\* among them does not start the signing rounds and does not end with an
\* error of the signing protocol, and a party that starts the rounds is one
\* of the signers it passes to the protocol.
C22_NonSignerDropsOut ==
    \A p \in Nodes, s \in Slots :
        ChoseSigners(p, s) =>
            /\ jobs[p][s].i \notin Range(jobs[p][s].participants)
                  => (SignRounds(p, s) = {} /\ jobs[p][s].err # "sign")
            /\ SignRounds(p, s) # {}
                  => jobs[p][s].i \in Range(jobs[p][s].participants)

\* the sign job of call s on node p read a record with a refreshed key
FoundRefreshedKey(p, s) ==
    /\ JobIs(s, "sign")
    /\ IsSome(jobs[p][s].read)
    /\ IsSome(Unwrap(jobs[p][s].read).refreshed_key)

\* C23: in a sign job that found a refreshed key, the list of selected
\* signers has exactly t = refreshed_key.min_signers entries, all distinct and
\* all in [0, n), n the size of the committee the job resolved.
C23_SignerList ==
    \A p \in Nodes, s \in Slots :
        FoundRefreshedKey(p, s) =>
            LET participants == jobs[p][s].participants
                t == Unwrap(Unwrap(jobs[p][s].read).refreshed_key).min_signers
                n == Len(jobs[p][s].parties)
            IN  /\ Len(participants) = t
                /\ \A a, b \in 1..Len(participants) :
                      a # b => participants[a] # participants[b]
                /\ \A a \in 1..Len(participants) :
                      participants[a] >= 0 /\ participants[a] < n

C23_Witness ==
    \E p \in Nodes, s \in Slots :
        /\ FoundRefreshedKey(p, s)
        /\ Len(jobs[p][s].participants) = Threshold
        /\ Len(jobs[p][s].parties) > Threshold
        /\ jobs[p][s].i \notin Range(jobs[p][s].participants)

\* C24: the committee a job resolves is all or nothing: a job that resolved a
\* committee has every registered operator in it, each with its key in the
\* chain storage, and when the key of some registered operator is absent the
\* job fails at its start with the error of the resolution, having opened no
\* channel and resolved no committee.
C24_CommitteeAllOrNothing ==
    [][\A p \in Nodes, s \in Slots :
          Starts(p, s) =>
              /\ jobs'[p][s].parties # <<>>
                    => /\ Range(jobs'[p][s].parties) = operators
                       /\ operators \subseteq prefs
              /\ ~(operators \subseteq prefs)
                    => /\ jobs'[p][s] = JobFails(jobs[p][s], "context")
                       /\ net' = net /\ store' = store]_vars

C24_Witness ==
    \E p \in Nodes, s \in Slots :
        /\ Issued(s) /\ calls[s].context.blueprint_id # None
        /\ p \in operators /\ p \in prefs /\ ~(operators \subseteq prefs)
        /\ jobs[p][s].pc = "failed" /\ jobs[p][s].err = "context"
        /\ jobs[p][s].parties = <<>>

\* C25: a job invoked with a context that has no call id, or no blueprint id,
\* ends at its start with the context error as its result: it opens no
\* channel, does not touch the store, and its task does not panic.
C25_MissingIdFailsFast ==
    [][\A p \in Nodes, s \in Slots :
          (/\ Starts(p, s)
           /\ (calls[s].context.call_id = None \/ calls[s].context.blueprint_id = None))
              => /\ jobs'[p][s] = JobFails(jobs[p][s], "context")
                 /\ net' = net /\ store' = store]_vars

\* the job of call s on node p found a record and ran a ceremony with it
RanWithRecord(p, s) ==
    /\ Issued(s) /\ calls[s].job \in {"key_refresh", "sign"}
    /\ IsSome(jobs[p][s].read)
    /\ \E e \in net : e.node = p /\ e.slot = s /\ e.ran

\* the party index under which the key share a job works with was generated
ShareIndex(p, s) ==
    IF calls[s].job = "key_refresh"
    THEN Unwrap(Unwrap(jobs[p][s].read).inner).public_key.i
    ELSE Unwrap(Unwrap(jobs[p][s].read).refreshed_key).i

\* C26: a key_refresh or sign job that found a record and ran a ceremony
\* with it passed to the protocol the party index under which the stored key
\* share was generated at keygen, whatever happened to the set of registered
\* operators in between.
C26_IndexStable ==
    \A p \in Nodes, s \in Slots :
        RanWithRecord(p, s) => jobs[p][s].i = ShareIndex(p, s)

\* the store writes of the step
Written(p) ==
    {key \in DOMAIN store'[p] : key \notin DOMAIN store[p] \/ store'[p][key] # store[p][key]}

\* the step is one of the key_refresh job of call s on node p
RefreshStep(p, s) ==
    /\ JobIs(s, "key_refresh")
    /\ jobs'[p][s] # jobs[p][s]
    /\ jobs[p][s].pc \in {"aux", "refresh"}

\* the keygen outputs the keygen jobs of node p produced
KeygenOutputs(p) ==
    {KeygenRecord(Unwrap(jobs[p][k].result), k).inner :
        k \in {r \in Slots : JobIs(r, "keygen") /\ jobs[p][r].wrote > 0}}

====
